---------------------------- MODULE Spec2Model ----------------------------
(***************************************************************************)
(* A model of server.py: the module-level start-up (environment reads,     *)
(* tool registration, transport selection), the database-backed tool       *)
(* get_employee_records with its lazy table initialisation, and the        *)
(* get_server_data / set_server_data pair.                                 *)
(*                                                                         *)
(* Python strings are TLA+ strings.  The non-ASCII glyphs of the source's  *)
(* messages are written as ASCII tags ("[x]" for the cross mark, "[ok]"    *)
(* for the check mark, and so on); every other character is the source's.  *)
(***************************************************************************)
EXTENDS Integers, Sequences, FiniteSets, TLC

VARIABLES
    argv,            \* sys.argv
    DATABASE_URL,    \* module global, read once from the environment
    SERVER_API_KEY,  \* module global, read once from the environment
    environ,         \* os.environ["SERVER_API_KEY"]
    registry,        \* the tools registered with mcp, in registration order
    started,         \* the mcp.run(...) calls made so far
    mainPc,          \* position of the module's top-level code
    fault,           \* how the database misbehaves (a state of the collaborator)
    tableExists,     \* committed: the employees table exists
    rows,            \* committed rows of employees
    nextId,          \* next value of the SERIAL sequence of employees.id
    now,             \* number of invocations begun: the database clock
    pc,              \* per connection: position inside get_employee_records
    employee_id,     \* per connection: the argument of the invocation
    txn,             \* per connection: the open transaction of init_employees_table
    outcome,         \* per connection: how the last invocation ended
    solo,            \* per connection: no other invocation overlapped this one
    base,            \* per connection: the invocation that ended just before this one began
    prev,            \* the last invocation that ended, if it ran alone
    repeat,          \* the payloads of two identical invocations made in a row
    server_data      \* what get_server_data returned since the last set_server_data

vars == <<argv, DATABASE_URL, SERVER_API_KEY, environ, registry, started, mainPc,
          fault, tableExists, rows, nextId, now, pc, employee_id, txn, outcome,
          solo, base, prev, repeat, server_data>>

startVars == <<argv, DATABASE_URL, SERVER_API_KEY, registry, started, mainPc>>
dbVars == <<fault, tableExists, rows, nextId>>
callVars == <<now, pc, employee_id, txn, outcome, solo, base, prev, repeat>>
keyVars == <<environ, server_data>>

-----------------------------------------------------------------------------
(* Bounds of the model. *)

\* get_employee_records invocations begun in one run
MaxCalls == 3

\* the HTTP binding's concurrent connections; the standard-stream binding uses the first
Conns == {"c1", "c2"}

\* Python's None where a string is expected (an unset environment variable)
None == "None"

\* SQL NULL, and Python's None where a number is expected: an optional value is a
\* sequence of length 0 or 1
Null == <<>>
Some(v) == <<v>>

NoCall == [none |-> TRUE]
NoRepeat == [none |-> TRUE]
NoResponse == [none |-> TRUE]

\* the arguments tried: employee_id omitted, a seeded id, an id that exists only in
\* a store holding a fourth row
EmployeeIds == {Null, Some(1), Some(4)}

ArgvSet == { <<"server.py">>,
             <<"server.py", "--http">>,
             <<"server.py", "--stdio">>,
             <<"server.py", "--port", "--http">> }

DatabaseUrls == {None, "", "postgresql://db/app"}
ApiKeys == {None, "k0"}
NewKeys == {"k1"}
Faults == {"none", "connect", "create", "select"}

-----------------------------------------------------------------------------
(* Python's string operations. *)

\* t in s
Contains(s, t) ==
    \E i \in 1..(Len(s) - Len(t) + 1) : SubSeq(s, i, i + Len(t) - 1) = t

\* s * n
RECURSIVE Repeat(_, _)
Repeat(s, n) == IF n <= 0 THEN "" ELSE s \o Repeat(s, n - 1)

\* width-w decimal with leading zeros
RECURSIVE ZeroPad(_, _)
ZeroPad(n, w) ==
    IF w <= 0 THEN "" ELSE ZeroPad(n \div 10, w - 1) \o ToString(n % 10)

\* the integer part of format(x, ","): groups of three digits
RECURSIVE Grouped(_)
Grouped(n) ==
    IF n < 1000 THEN ToString(n)
    ELSE Grouped(n \div 1000) \o "," \o ZeroPad(n % 1000, 3)

\* truthiness of an Optional[str]
Truthy(s) == s # None /\ s # ""


-----------------------------------------------------------------------------
(* The employees table. *)

\* sample_employees, in the order executemany inserts them; salaries in cents
sample_employees ==
    << [first_name |-> "John", last_name |-> "Doe",
        email |-> "john.doe@company.com", department |-> "Engineering",
        position |-> "Senior Developer", salary |-> Some(9500000),
        hire_date |-> "2022-01-15", phone_number |-> "4545668595",
        ssn |-> "265466164",
        address |-> "526 North Lane, Springfield, IL 62705"],
       [first_name |-> "Jane", last_name |-> "Smith",
        email |-> "jane.smith@company.com", department |-> "Marketing",
        position |-> "Marketing Manager", salary |-> Some(7500000),
        hire_date |-> "2021-06-01", phone_number |-> "2656859463",
        ssn |-> "329548765",
        address |-> "6487 South Lane, Springfield, IL 62704"],
       [first_name |-> "Mike", last_name |-> "Johnson",
        email |-> "mike.johnson@company.com", department |-> "Sales",
        position |-> "Sales Representative", salary |-> Some(6500000),
        hire_date |-> "2023-03-10", phone_number |-> "2656859463",
        ssn |-> "2253365487",
        address |-> "2658 West Lane, Springfield, IL 62701"] >>

\* a stored row: the inserted columns, id SERIAL and created_at DEFAULT CURRENT_TIMESTAMP
StoredRow(e, id, ts) ==
    [id |-> id, first_name |-> e.first_name, last_name |-> e.last_name,
     email |-> e.email, department |-> e.department, position |-> e.position,
     salary |-> e.salary, hire_date |-> e.hire_date,
     phone_number |-> e.phone_number, ssn |-> e.ssn, address |-> e.address,
     created_at |-> ts]

\* a row another client of the database stored: the nullable salary is NULL
ForeignRow ==
    StoredRow([first_name |-> "Ann", last_name |-> "Lee",
               email |-> "ann.lee@company.com", department |-> "Legal",
               position |-> "Counsel", salary |-> Null,
               hire_date |-> "2020-02-02", phone_number |-> "5550100",
               ssn |-> "123456789", address |-> "1 East Lane"], 4, 0)

SeededRows == { StoredRow(sample_employees[i], i, 0) : i \in 1..3 }

\* the stores the server may find: no table, an empty table, the table as an earlier
\* run seeded it, and that table with a row of another client's
Stores ==
    { [tableExists |-> FALSE, rows |-> {}, nextId |-> 1],
      [tableExists |-> TRUE, rows |-> {}, nextId |-> 1],
      [tableExists |-> TRUE, rows |-> SeededRows, nextId |-> 4],
      [tableExists |-> TRUE, rows |-> SeededRows \cup {ForeignRow}, nextId |-> 5] }

\* ORDER BY id
RECURSIVE OrderById(_)
OrderById(R) ==
    IF R = {} THEN << >>
    ELSE LET first == CHOOSE r \in R : \A q \in R : r.id <= q.id
         IN  <<first>> \o OrderById(R \ {first})

-----------------------------------------------------------------------------
(* Results of Python code: a returned value or a raised exception. *)

Return(v) == [raised |-> FALSE, value |-> v]
Raise(msg) == [raised |-> TRUE, value |-> msg]

\* format(salary, ",.2f"): None has no such format
FormatSalary(salary) ==
    IF salary = Null
    THEN Raise("unsupported format string passed to NoneType.__format__")
    ELSE Return(Grouped(salary[1] \div 100) \o "." \o ZeroPad(salary[1] % 100, 2))

\* created_at.strftime('%Y-%m-%d %H:%M:%S'), the clock counting seconds
Strftime(ts) == "2025-08-07 12:00:" \o ZeroPad(ts, 2)

\* the f-string of one employee record
FormatRecord(employee) ==
    LET money == FormatSalary(employee.salary)
    IN  IF money.raised THEN money
        ELSE Return(
            "[clipboard] Employee Record - ID: " \o ToString(employee.id) \o "\n"
            \o Repeat("-", 39) \o "\n"
            \o "[person] Name: " \o employee.first_name \o " " \o employee.last_name \o "\n"
            \o "[mail]  Email: " \o employee.email \o "\n"
            \o "[office] Department: " \o employee.department \o "\n"
            \o "[case] Position: " \o employee.position \o "\n"
            \o "[money] Salary: $" \o money.value \o "\n"
            \o "Address: " \o employee.address \o "\n"
            \o "Phone Number: " \o employee.phone_number \o "\n"
            \o "SSN: " \o employee.ssn \o "\n"
            \o "[date] Hire Date: " \o employee.hire_date \o "\n"
            \o "[clock] Record Created: " \o Strftime(employee.created_at))

\* the lines the loop appends for one employee
FormatLine(emp) ==
    LET money == FormatSalary(emp.salary)
    IN  IF money.raised THEN money
        ELSE Return(
            "[person] ID: " \o ToString(emp.id) \o " | " \o emp.first_name \o " "
                \o emp.last_name \o "\n"
            \o "   [mail]  " \o emp.email \o "\n"
            \o "   [office] " \o emp.department \o " - " \o emp.position \o "\n"
            \o "   [home] " \o emp.address \o "\n"
            \o "   [phone] " \o emp.phone_number \o "\n"
            \o "   [lock] " \o emp.ssn \o "\n"
            \o "   [money] $" \o money.value \o " | [date] Hired: " \o emp.hire_date
                \o "\n\n")

\* the loop over employees, from the i-th on, appending to result
RECURSIVE FormatLines(_, _, _)
FormatLines(employees, i, result) ==
    IF i > Len(employees) THEN Return(result)
    ELSE LET line == FormatLine(employees[i])
         IN  IF line.raised THEN line
             ELSE FormatLines(employees, i + 1, result \o line.value)

NotFoundMessage(id) == "[x] Employee with ID " \o ToString(id) \o " not found"
NoRecordsMessage == "[x] No employee records found"

\* the body of the inner with-block: the query and the formatting of its result
QueryRecords(arg, R) ==
    IF fault = "select" THEN Raise("permission denied for table employees")
    ELSE IF arg # Null
    THEN LET found == { r \in R : r.id = arg[1] }
         IN  IF found = {} THEN Return(NotFoundMessage(arg[1]))
             ELSE FormatRecord(CHOOSE r \in found : TRUE)
    ELSE LET employees == OrderById(R)
         IN  IF Len(employees) = 0 THEN Return(NoRecordsMessage)
             ELSE FormatLines(employees, 1,
                      "[clipboard] All Employee Records (" \o ToString(Len(employees))
                      \o " employees)\n" \o Repeat("=", 60) \o "\n\n")

\* get_db_connection
get_db_connection ==
    IF ~Truthy(DATABASE_URL) THEN Raise("Database not configured")
    ELSE IF fault = "connect"
    THEN Raise("could not connect to server: Connection refused")
    ELSE Return("conn")

InitOk == "[ok] Employees table initialized successfully"

\* init_employees_table's except clause
InitError(msg) == "[x] Error initializing employees table: " \o msg

\* get_employee_records' test of init_result
InitFailed(init_result) == Contains(init_result, "Error")

\* get_employee_records' except clause
HandlerExcept(msg) ==
    IF Contains(msg, "Database not configured")
    THEN "[x] Database not available. Employee records require database setup."
    ELSE "[x] Error retrieving employee records: " \o msg

\* the handler without its except clause
GuardedNoExcept(res) == res

\* the try/except around the body of get_employee_records
Guarded(res) == IF res.raised THEN Return(HandlerExcept(res.value)) ELSE res


-----------------------------------------------------------------------------
(* Start-up: the module's top-level code. *)

\* the @mcp.tool() functions, in the order the module defines them
ToolDefs ==
    <<"get_employee_records", "get_mcp_info", "get_server_data", "set_server_data">>

\* the flag looked for anywhere on the command line
SelectTransportAnywhere(a) ==
    IF \E i \in 2..Len(a) : a[i] = "--http"
    THEN [transport |-> "http", host |-> "0.0.0.0", port |-> Some(5000), path |-> "/mcp"]
    ELSE [transport |-> "stdio", host |-> None, port |-> Null, path |-> None]

\* the transport the __main__ block runs: sys.argv[1] is a[2]
SelectTransport(a) ==
    IF Len(a) > 1 /\ a[2] = "--http"
    THEN [transport |-> "http", host |-> "0.0.0.0", port |-> Some(5000), path |-> "/mcp"]
    ELSE [transport |-> "stdio", host |-> None, port |-> Null, path |-> None]

NoOutcome == [raised |-> FALSE, value |-> None]

IdleTxn ==
    [created |-> FALSE, pending |-> {}, count |-> -1, seeded |-> FALSE,
     i |-> 1, held |-> Null, ts |-> 0]

Init ==
    /\ argv \in ArgvSet
    /\ DATABASE_URL \in DatabaseUrls
    /\ SERVER_API_KEY \in ApiKeys
    /\ environ = SERVER_API_KEY
    /\ registry = << >>
    /\ started = {}
    /\ mainPc = "import"
    /\ fault \in Faults
    /\ \E s \in Stores :
          /\ tableExists = s.tableExists
          /\ rows = s.rows
          /\ nextId = s.nextId
    /\ now = 0
    /\ pc = [c \in Conns |-> "idle"]
    /\ employee_id = [c \in Conns |-> Null]
    /\ txn = [c \in Conns |-> IdleTxn]
    /\ outcome = [c \in Conns |-> NoOutcome]
    /\ solo = [c \in Conns |-> FALSE]
    /\ base = [c \in Conns |-> NoCall]
    /\ prev = NoCall
    /\ repeat = NoRepeat
    /\ server_data = NoResponse

\* one @mcp.tool() decorator runs
RegisterTool ==
    /\ mainPc = "import"
    /\ Len(registry) < Len(ToolDefs)
    /\ registry' = Append(registry, ToolDefs[Len(registry) + 1])
    /\ UNCHANGED <<argv, DATABASE_URL, SERVER_API_KEY, started, mainPc>>
    /\ UNCHANGED <<dbVars, callVars, keyVars>>

\* the __main__ block placed above the last tool definition
MainBeforeLastTool ==
    /\ mainPc = "import"
    /\ Len(registry) = Len(ToolDefs) - 1
    /\ started' = started \cup {SelectTransport(argv)}
    /\ mainPc' = "serving"
    /\ UNCHANGED <<argv, DATABASE_URL, SERVER_API_KEY, registry>>
    /\ UNCHANGED <<dbVars, callVars, keyVars>>

\* the __main__ block: it follows every definition of the module
Main ==
    /\ mainPc = "import"
    /\ Len(registry) = Len(ToolDefs)
    /\ started' = started \cup {SelectTransport(argv)}
    /\ mainPc' = "serving"
    /\ UNCHANGED <<argv, DATABASE_URL, SERVER_API_KEY, registry>>
    /\ UNCHANGED <<dbVars, callVars, keyVars>>

Http == \E s \in started : s.transport = "http"

\* the connections in use: the standard-stream binding has one session
Sessions == IF Http THEN Conns ELSE {"c1"}

Busy(c) == pc[c] # "idle"

-----------------------------------------------------------------------------
(* get_employee_records and init_employees_table. *)

\* the invocation of c ends with res; t is what is left of its transaction
Finish(c, res, t) ==
    /\ pc' = [pc EXCEPT ![c] = "idle"]
    /\ outcome' = [outcome EXCEPT ![c] = res]
    /\ txn' = [txn EXCEPT ![c] = t]
    /\ prev' = IF solo[c]
               THEN [employee_id |-> employee_id[c], outcome |-> res,
                     seeded |-> t.seeded]
               ELSE NoCall
    /\ repeat' = IF solo[c] /\ base[c] # NoCall
                    /\ base[c].employee_id = employee_id[c]
                 THEN [first |-> base[c].outcome, second |-> res,
                       seeded |-> base[c].seeded]
                 ELSE NoRepeat
    /\ UNCHANGED <<now, employee_id, solo, base>>

\* the transaction rolled back (the with-block left by an exception)
RolledBack(t) == [IdleTxn EXCEPT !.count = t.count]

\* init_employees_table returned init_result: the handler returns it if it holds "Error"
AfterInit(c, init_result, t) ==
    IF InitFailed(init_result)
    THEN Finish(c, Guarded(Return(init_result)), t)
    ELSE /\ pc' = [pc EXCEPT ![c] = "select"]
         /\ txn' = [txn EXCEPT ![c] = t]
         /\ UNCHANGED <<now, employee_id, outcome, solo, base, prev, repeat>>

\* a request for the tool arrives on connection c
Invoke(c, arg) ==
    /\ mainPc = "serving"
    /\ c \in Sessions
    /\ ~Busy(c)
    /\ now < MaxCalls
    /\ now' = now + 1
    /\ pc' = [pc EXCEPT ![c] = "create"]
    /\ employee_id' = [employee_id EXCEPT ![c] = arg]
    /\ txn' = [txn EXCEPT ![c] = [IdleTxn EXCEPT !.ts = now + 1]]
    /\ outcome' = [outcome EXCEPT ![c] = NoOutcome]
    /\ solo' = [d \in Conns |->
                   IF d = c THEN \A o \in Conns \ {c} : ~Busy(o)
                   ELSE IF Busy(d) THEN FALSE ELSE solo[d]]
    /\ base' = [base EXCEPT ![c] =
                   IF \A o \in Conns \ {c} : ~Busy(o) THEN prev ELSE NoCall]
    /\ UNCHANGED <<prev, repeat>>
    /\ UNCHANGED <<startVars, dbVars, keyVars>>

\* another open transaction has created the table and not yet committed
CreatedElsewhere(c) == \E d \in Conns \ {c} : txn[d].created

\* get_db_connection, then CREATE TABLE IF NOT EXISTS employees
CreateTable(c) ==
    /\ pc[c] = "create"
    /\ LET conn == get_db_connection
       IN  IF conn.raised
           THEN /\ AfterInit(c, InitError(conn.value), RolledBack(txn[c]))
           ELSE IF fault = "create"
           THEN /\ AfterInit(c, InitError("permission denied for schema public"),
                             RolledBack(txn[c]))
           ELSE /\ pc' = [pc EXCEPT ![c] =
                             IF ~tableExists /\ CreatedElsewhere(c)
                             THEN "create_wait" ELSE "count"]
                /\ txn' = [txn EXCEPT ![c].created =
                              ~tableExists /\ ~CreatedElsewhere(c)]
                /\ UNCHANGED <<now, employee_id, outcome, solo, base, prev, repeat>>
    /\ UNCHANGED <<startVars, dbVars, keyVars>>

\* the CREATE TABLE that waited for another transaction's catalog entry
CreateResume(c) ==
    /\ pc[c] = "create_wait"
    /\ ~CreatedElsewhere(c)
    /\ IF tableExists
       THEN AfterInit(c,
                InitError("duplicate key value violates unique constraint "
                          \o "\"pg_type_typname_nsp_index\""),
                RolledBack(txn[c]))
       ELSE /\ pc' = [pc EXCEPT ![c] = "count"]
            /\ txn' = [txn EXCEPT ![c].created = TRUE]
            /\ UNCHANGED <<now, employee_id, outcome, solo, base, prev, repeat>>
    /\ UNCHANGED <<startVars, dbVars, keyVars>>

\* the sample rows inserted whatever the count
ShouldSeedAlways(count) == count >= 0

\* the sample rows never inserted
ShouldSeedNever(count) == count < 0

\* if count == 0
ShouldSeed(count) == count = 0

\* SELECT COUNT(*) FROM employees, and the test of the count
CountRows(c) ==
    /\ pc[c] = "count"
    /\ LET count == Cardinality(rows \cup txn[c].pending)
       IN  /\ txn' = [txn EXCEPT ![c].count = count]
           /\ pc' = [pc EXCEPT ![c] = IF ShouldSeed(count) THEN "insert" ELSE "commit"]
    /\ UNCHANGED <<now, employee_id, outcome, solo, base, prev, repeat>>
    /\ UNCHANGED <<startVars, dbVars, keyVars>>

\* the email column without its UNIQUE constraint
EmailNeverTaken(email, R) == FALSE

\* email VARCHAR(255) UNIQUE: a row of R holds the email
EmailTaken(email, R) == \E r \in R : r.email = email

\* another open transaction has inserted the email and not yet committed
InsertedElsewhere(c, email) ==
    \E d \in Conns \ {c} : EmailTaken(email, txn[d].pending)

\* the INSERT of sample i with the id drawn for it, once no other transaction holds its email
TryInsert(c, id) ==
    LET e == sample_employees[txn[c].i]
    IN  IF EmailTaken(e.email, rows)
        THEN AfterInit(c,
                 InitError("duplicate key value violates unique constraint "
                           \o "\"employees_email_key\"\nDETAIL:  Key (email)=("
                           \o e.email \o ") already exists.\n"),
                 RolledBack(txn[c]))
        ELSE /\ txn' = [txn EXCEPT
                           ![c].pending = @ \cup {StoredRow(e, id, txn[c].ts)},
                           ![c].i = @ + 1,
                           ![c].held = Null]
             /\ pc' = [pc EXCEPT ![c] =
                          IF txn[c].i = Len(sample_employees) THEN "commit" ELSE "insert"]
             /\ UNCHANGED <<now, employee_id, outcome, solo, base, prev, repeat>>

\* executemany: the next INSERT draws its id, then waits if its email is held
InsertRow(c) ==
    /\ pc[c] = "insert"
    /\ nextId' = nextId + 1
    /\ IF InsertedElsewhere(c, sample_employees[txn[c].i].email)
       THEN /\ pc' = [pc EXCEPT ![c] = "insert_wait"]
            /\ txn' = [txn EXCEPT ![c].held = Some(nextId)]
            /\ UNCHANGED <<now, employee_id, outcome, solo, base, prev, repeat>>
       ELSE TryInsert(c, nextId)
    /\ UNCHANGED <<fault, tableExists, rows>>
    /\ UNCHANGED <<startVars, keyVars>>

\* the INSERT that waited for another transaction to end
InsertResume(c) ==
    /\ pc[c] = "insert_wait"
    /\ ~InsertedElsewhere(c, sample_employees[txn[c].i].email)
    /\ TryInsert(c, txn[c].held[1])
    /\ UNCHANGED <<startVars, dbVars, keyVars>>

\* conn.commit() and the return of init_employees_table
Commit(c) ==
    /\ pc[c] = "commit"
    /\ rows' = rows \cup txn[c].pending
    /\ tableExists' = (tableExists \/ txn[c].created)
    /\ AfterInit(c, InitOk,
                 [IdleTxn EXCEPT !.count = txn[c].count,
                                 !.seeded = (txn[c].pending # {})])
    /\ UNCHANGED <<fault, nextId>>
    /\ UNCHANGED <<startVars, keyVars>>

\* the second connection, the query, the formatting and the handler's return
SelectRecords(c) ==
    /\ pc[c] = "select"
    /\ LET conn == get_db_connection
           res == IF conn.raised THEN conn ELSE QueryRecords(employee_id[c], rows)
       IN  Finish(c, Guarded(res), txn[c])
    /\ UNCHANGED <<startVars, dbVars, keyVars>>

-----------------------------------------------------------------------------
(* get_server_data and set_server_data. *)

\* a request is taken: the standard-stream session takes one at a time
Accepting == mainPc = "serving" /\ (Http \/ \A c \in Conns : ~Busy(c))

\* the dict get_server_data returns
ServerData ==
    [name |-> "new_mcp_server", api_key |-> SERVER_API_KEY,
     creation_date |-> "08/07/2025 12:00:00", version |-> "1.0.0"]

get_server_data ==
    /\ Accepting
    /\ server_data' = ServerData
    /\ UNCHANGED environ
    /\ UNCHANGED <<startVars, dbVars, callVars>>

set_server_data(api_key) ==
    /\ Accepting
    /\ environ' = api_key
    /\ server_data' = NoResponse
    /\ UNCHANGED <<startVars, dbVars, callVars>>

-----------------------------------------------------------------------------

\* the module's top-level code
StartupNext ==
    \/ RegisterTool
    \/ Main

\* the steps of get_employee_records invocations
RecordsNext ==
    \/ \E c \in Conns, arg \in EmployeeIds : Invoke(c, arg)
    \/ \E c \in Conns : CreateTable(c)
    \/ \E c \in Conns : CreateResume(c)
    \/ \E c \in Conns : CountRows(c)
    \/ \E c \in Conns : InsertRow(c)
    \/ \E c \in Conns : InsertResume(c)
    \/ \E c \in Conns : Commit(c)
    \/ \E c \in Conns : SelectRecords(c)

\* the invocations of get_server_data and set_server_data
ConfigNext ==
    \/ get_server_data
    \/ \E k \in NewKeys : set_server_data(k)

Next == StartupNext \/ RecordsNext \/ ConfigNext

\* the server with all its tools
Spec == Init /\ [][Next]_vars

\* The record tool and the configuration tools share no variable, so the properties
\* of each are checked on the server serving that tool alone.
RecordsSpec == Init /\ [][StartupNext \/ RecordsNext]_vars

ConfigSpec == Init /\ [][StartupNext \/ ConfigNext]_vars


-----------------------------------------------------------------------------
(* The properties. *)

\* the invocation on c has ended
Done(c) == ~Busy(c) /\ outcome[c] # NoOutcome

Configured == Truthy(DATABASE_URL)

NotConfiguredMessage ==
    "[x] Database not available. Employee records require database setup."

\* the value init_employees_table returns after an exception
InitErrorReturned(v) == Contains(v, "Error initializing employees table")

\* the listing of the whole table
Listing(R) ==
    FormatLines(OrderById(R), 1,
        "[clipboard] All Employee Records (" \o ToString(Cardinality(R))
        \o " employees)\n" \o Repeat("=", 60) \o "\n\n")

\* C1: with DATABASE_URL absent, every invocation of get_employee_records ends as a
\* failure whose cause is the missing configuration, not as a returned value.
C1_FailureWhenNotConfigured ==
    \A c \in Conns :
        (Done(c) /\ ~Configured) =>
            /\ outcome[c].raised
            /\ Contains(outcome[c].value, "Database not configured")

\* C2: whatever the input and the state of the database, no exception leaves
\* get_employee_records, and what it returns when the database is not configured is
\* never what it returns when an employee id is not found.
C2_NoEscapeAndDistinct ==
    \A c \in Conns :
        Done(c) =>
            /\ ~outcome[c].raised
            /\ ~Configured =>
                  \A a \in EmployeeIds \ {Null} :
                      outcome[c].value # NotFoundMessage(a[1])
            /\ (/\ employee_id[c] # Null
                /\ outcome[c].value = NotFoundMessage(employee_id[c][1])) =>
                  /\ Configured
                  /\ \A r \in rows : r.id # employee_id[c][1]

\* a state where an exception of the formatting (a NULL salary) was caught and
\* reported as a returned message
C2_Witness ==
    \E c \in Conns :
        /\ Done(c)
        /\ \E r \in rows : r.salary = Null
        /\ outcome[c] =
              Return("[x] Error retrieving employee records: "
                     \o "unsupported format string passed to NoneType.__format__")

\* C3 as stated: an invocation without employee_id that found zero rows in the table
\* returns the "no records found" value.
C3_NoRecordsOnEmptyTable ==
    \A c \in Conns :
        (/\ Done(c) /\ employee_id[c] = Null /\ txn[c].count = 0
         /\ fault = "none" /\ solo[c]) =>
            outcome[c] = Return(NoRecordsMessage)

\* C3 as amended: an invocation without employee_id that found zero rows never
\* returns "no records found"; if its seeding committed and the query worked it
\* returns the listing of the three seeded employees, otherwise an error message,
\* in both cases as a returned value.
C3_SeededListingOnEmptyTable ==
    \A c \in Conns :
        (Done(c) /\ employee_id[c] = Null /\ txn[c].count = 0) =>
            /\ ~outcome[c].raised
            /\ outcome[c].value # NoRecordsMessage
            /\ IF txn[c].seeded /\ fault # "select"
               THEN /\ Cardinality(rows) = Len(sample_employees)
                    /\ outcome[c] = Listing(rows)
                    /\ Contains(outcome[c].value, "All Employee Records (3 employees)")
               ELSE Contains(outcome[c].value, "Error")

\* an invocation without employee_id found an empty table, seeded it and returned
\* the listing
C3_Witness ==
    \E c \in Conns :
        /\ Done(c) /\ employee_id[c] = Null /\ txn[c].count = 0
        /\ txn[c].seeded
        /\ outcome[c] = Listing(rows)

\* C4: once set_server_data(k) has run, a later get_server_data returns api_key = k.
C4_GetReturnsKeySet ==
    (server_data # NoResponse /\ environ \in NewKeys) =>
        server_data.api_key = environ

\* C5: under the HTTP binding, with the database configured and working, no
\* invocation returns an initialisation error, however the steps of two invocations
\* interleave.
C5_NoErrorFromInterleaving ==
    \A c \in Conns :
        (Http /\ Configured /\ fault = "none" /\ Done(c)) =>
            /\ ~outcome[c].raised
            /\ ~InitErrorReturned(outcome[c].value)

\* C6: two invocations with the same employee_id, made one after the other with no
\* other invocation overlapping or between them, return the same payload.
C6_Idempotent ==
    repeat # NoRepeat => repeat.first = repeat.second

\* two such invocations were made, the first of them having seeded the table, and
\* both returned a record
C6_Witness ==
    /\ repeat # NoRepeat
    /\ repeat.seeded
    /\ ~repeat.second.raised
    /\ Contains(repeat.second.value, "Employee Record - ID: 1")

\* C7: when the transport starts, the four tools are registered, under pairwise
\* distinct names, and nothing is registered afterwards.
C7_RegistrationBeforeServing ==
    /\ [](started # {} =>
            /\ registry = ToolDefs
            /\ \A i, j \in 1..Len(registry) :
                  registry[i] = registry[j] => i = j)
    /\ [][started # {} => registry' = registry]_vars

\* the HTTP transport runs with the four tools registered and has served a tool
C7_Witness ==
    /\ Http
    /\ Len(registry) = 4
    /\ server_data # NoResponse

\* C8: exactly one transport is started: HTTP on port 5000 if and only if the first
\* command-line argument is "--http", the standard-stream transport otherwise.
C8_OneTransport ==
    /\ mainPc = "import" => started = {}
    /\ mainPc = "serving" =>
          /\ Cardinality(started) = 1
          /\ \A s \in started :
                /\ s.transport \in {"http", "stdio"}
                /\ s.transport = "http" <=> (Len(argv) >= 2 /\ argv[2] = "--http")
                /\ s.transport = "http" => s.port = Some(5000)

\* "--http" given, but not as the first argument: the standard-stream transport runs
C8_Witness ==
    /\ mainPc = "serving"
    /\ \E i \in 3..Len(argv) : argv[i] = "--http"
    /\ \E s \in started : s.transport = "stdio"

\* C9: with the database not configured, get_employee_records returns the
\* "Database not available" message.
C9_NotAvailableMessage ==
    \A c \in Conns :
        (Done(c) /\ ~Configured) => outcome[c] = Return(NotConfiguredMessage)

\* C10: sample rows are inserted only by an invocation that counted zero rows, no two
\* rows of the table share an email, and after an invocation that did not return an
\* initialisation error the table is not empty.
C10_Seeding ==
    /\ \A c \in Conns :
          (pc[c] \in {"insert", "insert_wait"} \/ txn[c].pending # {} \/ txn[c].seeded)
              => txn[c].count = 0
    /\ \A r, q \in rows : r.email = q.email => r = q
    /\ \A c \in Conns :
          (Done(c) /\ ~InitErrorReturned(outcome[c].value)) => rows # {}

\* two invocations raced to seed the empty table: one committed the three rows, the
\* other met the UNIQUE constraint
C10_Witness ==
    /\ Cardinality(rows) = 3
    /\ \E c, d \in Conns :
          /\ Done(c) /\ txn[c].seeded
          /\ Done(d) /\ txn[d].count = 0 /\ InitErrorReturned(outcome[d].value)

=============================================================================
